---------------------------- MODULE Spec2Model ----------------------------
(***************************************************************************)
(* Support-triage graph of src/app.py (chat endpoint) and src/run_cli.py   *)
(* (run_once), run by the LangGraph engine over a SQLite checkpointer.     *)
(*                                                                         *)
(* The handlers, the router, the graph wiring and the two entry points are *)
(* translated from the source.  graph.invoke and the checkpointer are      *)
(* library calls (app.py:171-172, 202, 212; run_cli.py:12); they are       *)
(* modelled by what the compiled graph does for this program:              *)
(*   - invoke loads the thread's latest checkpoint and works on its own    *)
(*     in-memory copy; nothing locks a thread for the length of a call;    *)
(*   - a dict input is written as an "input" checkpoint and the run starts *)
(*     again at START, whatever the thread's earlier position was;         *)
(*   - Command(resume=v) on a thread that has checkpoints continues from   *)
(*     the latest one, and v is what interrupt() returns in the first      *)
(*     superstep; on a thread without checkpoints the Command is taken as  *)
(*     the run's input and the run starts at START with no state keys;     *)
(*   - after every superstep a checkpoint (step + 1) is appended; a node   *)
(*     that raises or calls interrupt() appends none; interrupt() stores a *)
(*     pending write against the current checkpoint.                       *)
(***************************************************************************)
EXTENDS Integers, Sequences, FiniteSets, TLC

\* ------------------------------------------------------------ bounds
\* Calls made in a run, and calls made in a run in which two calls overlap.
MaxCalls == 3
MaxParallelCalls == 2

\* ------------------------------------------------------------ values
Threads == {"t1", "t2"}
Workers == {1, 2}
NoThread == "no_thread"

None == "None"
Approvals == {None, "True", "False"}

\* Inbound.message / run_once's text.  A text is the set of classifier
\* keywords that occur in it and the numeric tokens it has, in order.
NoContent ==
    [kind |-> "text", kws |-> {}, nums |-> <<>>, amt |-> 0]

Text(kws, nums) ==
    [kind |-> "text", kws |-> kws, nums |-> nums, amt |-> 0]

Texts ==
    { Text({"refund", "policy"}, <<0, 42>>),
      Text({"hours", "bug"}, <<>>),
      Text({"bug"}, <<>>),
      Text({}, <<>>) }

\* A request body without the required field "message".
MissingMessage ==
    [kind |-> "missing", kws |-> {}, nums |-> <<>>, amt |-> 0]

Result(kind, amt) ==
    [kind |-> kind, kws |-> {}, nums |-> <<>>, amt |-> amt]

NoResult == Result(None, 0)

\* app.py:115, the demo's default refund.
DefaultAmount == 20

\* ------------------------------------------------------------ tools
\* kb.json: the "q" keys of its rows.
KB == {"hours", "policy"}

tool_kb_search(query) ==
    IF \E q \in KB : q \in query.kws
    THEN Result("faq_answer", 0)
    ELSE Result("faq_nomatch", 0)

tool_create_ticket(text) == Result("ticket", 0)

tool_issue_refund(amount) == Result("refund_issued", amount)

\* ------------------------------------------------------------ classifier
classify_intent(message) ==
    IF message.kws \cap {"refund", "chargeback", "money back"} # {}
    THEN <<"refund", "high">>
    ELSE IF message.kws \cap {"hours", "policy", "contact"} # {}
    THEN <<"faq", "low">>
    ELSE IF message.kws \cap {"bug", "error", "issue", "broken"} # {}
    THEN <<"issue", "low">>
    ELSE <<"unknown", "low">>

\* ------------------------------------------------------------ state
Msg(role, content) == [role |-> role, content |-> content]

GraphState(messages, intent, risk, action_result, approval) ==
    [messages |-> messages, intent |-> intent, risk |-> risk,
     action_result |-> action_result, approval |-> approval]

\* The channel values of a thread that has had no state written: no key.
NoKeys == [present |-> FALSE, st |-> GraphState(<<>>, None, None, NoResult, None)]

Keys(st) == [present |-> TRUE, st |-> st]

RECURSIVE LastUserFrom(_, _)
LastUserFrom(messages, i) ==
    IF i = 0 THEN NoContent
    ELSE IF messages[i].role = "user" THEN messages[i].content
    ELSE LastUserFrom(messages, i - 1)

last_user(state) == LastUserFrom(state.messages, Len(state.messages))


\* ------------------------------------------------------------ graph nodes
\* What a handler call ends with: "ok" (it returned st), "interrupt" (it
\* called interrupt() with no resume value at hand) or "raise".
Out(kind, st) == [kind |-> kind, st |-> st]

\* state["messages"] raises KeyError when the state has no key.
node_classify(ch) ==
    IF ~ch.present THEN Out("raise", ch.st)
    ELSE LET ir == classify_intent(last_user(ch.st))
         IN  Out("ok", [ch.st EXCEPT !.intent = ir[1], !.risk = ir[2]])

\* A handler step that answers with a message list of its own.
AppendAssistantReplacing(state, content) ==
    [state EXCEPT !.action_result = content,
                  !.messages = <<Msg("assistant", content)>>]

AppendAssistant(state, content) ==
    [state EXCEPT !.action_result = content,
                  !.messages = Append(@, Msg("assistant", content))]

node_handle_faq(state) ==
    Out("ok", AppendAssistant(state, tool_kb_search(last_user(state))))

node_handle_issue(state) ==
    Out("ok", AppendAssistant(state, tool_create_ticket(last_user(state))))

\* A gate that asks for the decision whatever the state's approval is.
node_human_gate_always(state, resume) ==
    IF resume = "none" THEN Out("interrupt", state)
    ELSE Out("ok", [state EXCEPT !.approval = resume])

\* A gate that asks for the decision and does not store it.
node_human_gate_unstored(state, resume) ==
    IF state.approval = None /\ resume = "none"
    THEN Out("interrupt", state)
    ELSE Out("ok", state)

\* resume: "none", or the value Command(resume=...) carries.
node_human_gate(state, resume) ==
    IF state.approval = None
    THEN IF resume = "none" THEN Out("interrupt", state)
         ELSE Out("ok", [state EXCEPT !.approval = resume])
    ELSE Out("ok", state)

\* The first token float() accepts ends the scan, whatever its value.
ParseAmount(text) ==
    LET amount == IF Len(text.nums) > 0 THEN text.nums[1] ELSE 0
    IN  IF amount <= 0 THEN DefaultAmount ELSE amount

\* A refund handler that takes any recorded decision for an approval.
node_handle_refund_any(state) ==
    IF state.approval = None
    THEN Out("ok", AppendAssistant(state, Result("refund_denied", 0)))
    ELSE Out("ok", AppendAssistant(state,
                     tool_issue_refund(ParseAmount(last_user(state)))))

node_handle_refund(state) ==
    IF state.approval # "True"
    THEN Out("ok", AppendAssistant(state, Result("refund_denied", 0)))
    ELSE Out("ok", AppendAssistant(state,
                     tool_issue_refund(ParseAmount(last_user(state)))))

\* A fallback that appends its notice and the ticket as two messages.
node_fallback_two_messages(state) ==
    Out("ok", AppendAssistant(AppendAssistant(state, Result("ticket", 0)),
                              Result("fallback_ticket", 0)))

node_fallback(state) ==
    Out("ok", AppendAssistant(state, Result("fallback_ticket", 0)))

\* ------------------------------------------------------------ graph
START == "__start__"
END == "__end__"
Nodes == {"classify", "faq", "issue", "human_gate", "refund", "fallback"}

\* A router that sends every refund straight to the refund node.
router_ungated(state) ==
    IF state.intent = "faq" THEN "faq"
    ELSE IF state.intent = "issue" THEN "issue"
    ELSE IF state.intent = "refund" THEN "refund"
    ELSE "fallback"

router(state) ==
    IF state.intent = "faq" THEN "faq"
    ELSE IF state.intent = "issue" THEN "issue"
    ELSE IF state.intent = "refund"
    THEN (IF state.risk = "high" THEN "human_gate" ELSE "refund")
    ELSE "fallback"

\* A mapping without an entry for the router's last label.
PathMapNoFallback ==
    [l \in {"faq", "issue", "human_gate", "refund"} |-> l]

\* The mapping given to add_conditional_edges.
PathMap ==
    [l \in {"faq", "issue", "human_gate", "refund", "fallback"} |-> l]

\* The add_edge calls, and the node add_conditional_edges starts from.
Edges ==
    { <<START, "classify">>, <<"human_gate", "refund">>, <<"faq", END>>,
      <<"issue", END>>, <<"refund", END>>, <<"fallback", END>> }

ConditionalSource == "classify"

\* A wiring with faq -> human_gate in place of faq -> END.
NextNodeFaqGated(node, state) ==
    IF node = START THEN "classify"
    ELSE IF node = "classify" THEN PathMap[router(state)]
    ELSE IF node = "faq" THEN "human_gate"
    ELSE IF node = "human_gate" THEN "refund"
    ELSE END

\* A wiring with refund -> classify in place of refund -> END.
NextNodeCyclic(node, state) ==
    IF node = START THEN "classify"
    ELSE IF node = "classify" THEN PathMap[router(state)]
    ELSE IF node = "human_gate" THEN "refund"
    ELSE IF node = "refund" THEN "classify"
    ELSE END

\* The node that follows `node` when its handler returned `state`.
NextNode(node, state) ==
    IF node = START THEN "classify"
    ELSE IF node = "classify" THEN PathMap[router(state)]
    ELSE IF node = "human_gate" THEN "refund"
    ELSE END

\* A step that does not hand the resume value to the handler.
RunNodeResumeDropped(node, ch, resume) ==
    IF node = "classify" THEN node_classify(ch)
    ELSE IF node = "faq" THEN node_handle_faq(ch.st)
    ELSE IF node = "issue" THEN node_handle_issue(ch.st)
    ELSE IF node = "human_gate" THEN node_human_gate(ch.st, "none")
    ELSE IF node = "refund" THEN node_handle_refund(ch.st)
    ELSE node_fallback(ch.st)

RunNode(node, ch, resume) ==
    IF node = "classify" THEN node_classify(ch)
    ELSE IF node = "faq" THEN node_handle_faq(ch.st)
    ELSE IF node = "issue" THEN node_handle_issue(ch.st)
    ELSE IF node = "human_gate" THEN node_human_gate(ch.st, resume)
    ELSE IF node = "refund" THEN node_handle_refund(ch.st)
    ELSE node_fallback(ch.st)

\* ------------------------------------------------------------ engine state
VARIABLES
    hist,     \* thread -> its checkpoints, oldest first (the checkpoints table)
    writes,   \* thread -> its pending writes (the writes table)
    pc,       \* worker -> where its call stands
    req,      \* worker -> the call it serves
    loc,      \* worker -> the in-memory state of its graph.invoke
    last,     \* what the call that has just returned handed back
    calls,    \* calls made so far
    invs,     \* thread -> graph.invoke calls made on it
    par,      \* whether a call has started while another was being served
    execs     \* thread -> node -> times the node's handler was called

vars == <<hist, writes, pc, req, loc, last, calls, invs, par, execs>>

Checkpoint(source, step, ch, next, start, parent) ==
    [source |-> source, step |-> step, ch |-> ch, next |-> next,
     start |-> start, parent |-> parent]

Write(ck, kind, val) == [ck |-> ck, kind |-> kind, val |-> val]

\* What a call hands to graph.invoke: the thread id and either a state (its
\* message and its approval field) or the value of Command(resume=...).
NoReq ==
    [tid |-> NoThread, message |-> NoContent, approval |-> None,
     resume |-> "none"]

NoLoc ==
    [ch |-> NoKeys, next |-> END, step |-> 0, cur |-> 0, resume |-> "none",
     start |-> NoKeys, new |-> FALSE, paused |-> FALSE, ended |-> FALSE,
     ran |-> <<>>, nput |-> 0]

NoRes ==
    [status |-> "NONE", req |-> NoReq, ch |-> NoKeys, new |-> FALSE,
     paused |-> FALSE, ended |-> FALSE, ran |-> <<>>, nput |-> 0,
     interrupt |-> "none"]

Init ==
    /\ hist = [t \in Threads |-> <<>>]
    /\ writes = [t \in Threads |-> {}]
    /\ pc = [w \in Workers |-> "idle"]
    /\ req = [w \in Workers |-> NoReq]
    /\ loc = [w \in Workers |-> NoLoc]
    /\ last = NoRes
    /\ calls = 0
    /\ invs = [t \in Threads |-> 0]
    /\ par = FALSE
    /\ execs = [t \in Threads |-> [n \in Nodes |-> 0]]

\* A thread id no call has used: what uuid.uuid4().hex gives.
Unused(t) ==
    /\ hist[t] = <<>>
    /\ writes[t] = {}
    /\ invs[t] = 0
    /\ \A w \in Workers : req[w].tid # t

FreshId == CHOOSE t \in Threads : Unused(t)

\* thread_id or uuid.uuid4().hex
ThreadIdOr(thread_id) == IF thread_id = NoThread THEN FreshId ELSE thread_id

\* The ids a caller can send: none, the id of a thread in use, or a new id
\* of its own (which of the unused ids it is makes no difference).
CanResolve(thread_id) ==
    \/ thread_id \in Threads /\ invs[thread_id] > 0
    \/ /\ \E t \in Threads : Unused(t)
       /\ thread_id \in {NoThread, FreshId}

\* The pool hands a call to an idle worker; which one makes no difference.
Idle(w) ==
    /\ pc[w] = "idle"
    /\ \A v \in Workers : pc[v] = "idle" => w <= v

Busy == \E v \in Workers : pc[v] # "idle"

\* A call arrives, within the bounds.
Arrive ==
    /\ calls < MaxCalls
    /\ (Busy \/ par) => calls < MaxParallelCalls
    /\ calls' = calls + 1
    /\ par' = (par \/ Busy)

\* The state chat builds for a fresh call (approval is None) and the one
\* run_once builds (approval is the caller's).
state_in(message, approval) ==
    GraphState(<<Msg("user", message)>>, None, None, NoResult, approval)

\* The dict the call hands to graph.invoke, when it hands one.
InputOf(r) == Keys(state_in(r.message, r.approval))

\* ------------------------------------------------------------ checkpointer
\* A store that keeps one row per thread and rewrites it.
PutLatestOnly(h, c) == IF h = <<>> THEN <<c>> ELSE [h EXCEPT ![Len(h)] = c]

\* put: a checkpoint is a new row of the thread, after the rows it has.
Put(h, c) == Append(h, c)

\* The pending interrupt of checkpoint number n of thread t, if it has one.
Interrupted(t, n) ==
    \E wr \in writes[t] : wr.ck = n /\ wr.kind = "interrupt"

\* ------------------------------------------------------------ entry points
\* POST /chat with a body that lacks "message": the Inbound model rejects it
\* and chat is not called.
ChatInvalid(w, thread_id, approval) ==
    /\ Idle(w)
    /\ Arrive
    /\ last' = [NoRes EXCEPT !.status = "INVALID",
                              !.req = [NoReq EXCEPT
                                         !.message = MissingMessage]]
    /\ UNCHANGED <<hist, writes, pc, req, loc, invs, execs>>

\* POST /chat: approval decides between Command(resume=...) and a fresh state.
\* With an approval the message is never read, so the call keeps none.
Chat(w, thread_id, message, approval) ==
    /\ Idle(w)
    /\ Arrive
    /\ CanResolve(thread_id)
    /\ req' = [req EXCEPT ![w] =
                 [tid |-> ThreadIdOr(thread_id),
                  message |-> IF approval # None THEN NoContent ELSE message,
                  approval |-> None,
                  resume |-> IF approval # None THEN approval ELSE "none"]]
    /\ invs' = [invs EXCEPT ![ThreadIdOr(thread_id)] = @ + 1]
    /\ loc' = [loc EXCEPT ![w] = NoLoc]
    /\ pc' = [pc EXCEPT ![w] = "first"]
    /\ last' = NoRes
    /\ UNCHANGED <<hist, writes, execs>>

\* run_once(text, thread_id, approval): always a fresh state, approval in it.
RunOnce(w, thread_id, text, approval) ==
    /\ Idle(w)
    /\ Arrive
    /\ CanResolve(thread_id)
    /\ req' = [req EXCEPT ![w] =
                 [tid |-> ThreadIdOr(thread_id), message |-> text,
                  approval |-> approval, resume |-> "none"]]
    /\ invs' = [invs EXCEPT ![ThreadIdOr(thread_id)] = @ + 1]
    /\ loc' = [loc EXCEPT ![w] = NoLoc]
    /\ pc' = [pc EXCEPT ![w] = "first"]
    /\ last' = NoRes
    /\ UNCHANGED <<hist, writes, execs>>

\* ------------------------------------------------------------ graph.invoke
\* What the call reads at its start: the thread's latest checkpoint, or none.
Loaded(t) ==
    LET n == Len(hist[t])
    IN  IF n = 0
        THEN [NoLoc EXCEPT !.step = -2, !.new = TRUE]
        ELSE [NoLoc EXCEPT !.ch = hist[t][n].ch,
                           !.next = hist[t][n].next,
                           !.step = hist[t][n].step,
                           !.start = hist[t][n].start,
                           !.cur = n,
                           !.paused = Interrupted(t, n),
                           !.ended = (hist[t][n].next = END)]

\* What chat and run_once make of the value graph.invoke hands back.
Return(w, l, status, ch, interrupt) ==
    /\ last' = [status |-> status, req |-> req[w], ch |-> ch,
                new |-> l.new, paused |-> l.paused, ended |-> l.ended,
                ran |-> l.ran, nput |-> l.nput, interrupt |-> interrupt]
    /\ pc' = [pc EXCEPT ![w] = "idle"]
    /\ req' = [req EXCEPT ![w] = NoReq]
    /\ loc' = [loc EXCEPT ![w] = NoLoc]

\* A fresh state: an "input" checkpoint holds it for START, over whatever the
\* thread's position was, and the run starts at START.
FirstInput(w) ==
    /\ pc[w] = "first"
    /\ req[w].resume = "none"
    /\ LET t == req[w].tid
           l == Loaded(t)
           c == Checkpoint("input", l.step + 1, l.ch, START, InputOf(req[w]),
                           l.cur)
       IN  /\ hist' = [hist EXCEPT ![t] = Put(@, c)]
           /\ loc' = [loc EXCEPT ![w] =
                        [l EXCEPT !.next = START, !.step = l.step + 1,
                                  !.start = InputOf(req[w]),
                                  !.cur = Len(hist'[t]),
                                  !.nput = l.nput + 1]]
    /\ pc' = [pc EXCEPT ![w] = "tick"]
    /\ last' = NoRes
    /\ UNCHANGED <<writes, req, calls, invs, par, execs>>

\* Command(resume=v) on a thread that has a checkpoint: v is a pending write
\* and the run goes on from the checkpoint's next node; with no node left,
\* graph.invoke returns the thread's state as it is.
FirstResume(w) ==
    /\ pc[w] = "first"
    /\ req[w].resume # "none"
    /\ LET t == req[w].tid
           l == Loaded(t)
       IN  /\ ~l.new
           /\ writes' = [writes EXCEPT ![t] =
                           @ \cup {Write(l.cur, "resume", req[w].resume)}]
           /\ IF l.next = END
              THEN Return(w, l, "DONE", l.ch, "none")
              ELSE /\ loc' = [loc EXCEPT ![w] =
                                [l EXCEPT !.resume = req[w].resume]]
                   /\ pc' = [pc EXCEPT ![w] = "tick"]
                   /\ last' = NoRes
                   /\ UNCHANGED req
    /\ UNCHANGED <<hist, calls, invs, par, execs>>

\* Command(resume=v) on a thread without checkpoints: nothing to go on from,
\* so the Command is the run's input; it carries no update of the state.
FirstResumeNew(w) ==
    /\ pc[w] = "first"
    /\ req[w].resume # "none"
    /\ LET t == req[w].tid
           l == Loaded(t)
           c == Checkpoint("input", l.step + 1, l.ch, START, NoKeys, l.cur)
       IN  /\ l.new
           /\ hist' = [hist EXCEPT ![t] = Put(@, c)]
           /\ loc' = [loc EXCEPT ![w] =
                        [l EXCEPT !.next = START, !.step = l.step + 1,
                                  !.start = NoKeys,
                                  !.cur = Len(hist'[t]),
                                  !.nput = l.nput + 1]]
           /\ writes' = [writes EXCEPT ![t] =
                           @ \cup {Write(0, "resume", req[w].resume)}]
    /\ pc' = [pc EXCEPT ![w] = "tick"]
    /\ last' = NoRes
    /\ UNCHANGED <<req, calls, invs, par, execs>>

\* The engine calls the handler of node n for thread t.
Called(t, n) == [execs EXCEPT ![t][n] = @ + 1]

\* The START superstep: the input's keys become the state; next is classify.
TickStart(w) ==
    /\ pc[w] = "tick"
    /\ loc[w].next = START
    /\ LET t == req[w].tid
           l == loc[w]
           ch == IF l.start.present THEN l.start ELSE l.ch
           c == Checkpoint("loop", l.step + 1, ch, NextNode(START, ch.st),
                           NoKeys, l.cur)
       IN  /\ hist' = [hist EXCEPT ![t] = Put(@, c)]
           /\ loc' = [loc EXCEPT ![w] =
                        [l EXCEPT !.ch = ch, !.next = c.next,
                                  !.step = l.step + 1, !.start = NoKeys,
                                  !.cur = Len(hist'[t]), !.resume = "none",
                                  !.nput = l.nput + 1]]
    /\ last' = NoRes
    /\ UNCHANGED <<writes, pc, req, calls, invs, par, execs>>

\* A node's superstep whose handler returns: its state and the node after it
\* are the next checkpoint; after the last node graph.invoke returns the state.
TickNode(w) ==
    /\ pc[w] = "tick"
    /\ loc[w].next \in Nodes
    /\ LET t == req[w].tid
           l == loc[w]
           out == RunNode(l.next, l.ch, l.resume)
           c == Checkpoint("loop", l.step + 1, Keys(out.st),
                           NextNode(l.next, out.st), NoKeys, l.cur)
           l2 == [l EXCEPT !.ch = c.ch, !.next = c.next,
                           !.step = l.step + 1,
                           !.cur = Len(hist[t]) + 1, !.resume = "none",
                           !.ran = Append(l.ran, l.next),
                           !.nput = l.nput + 1]
       IN  /\ out.kind = "ok"
           /\ hist' = [hist EXCEPT ![t] = Put(@, c)]
           /\ IF c.next = END
              THEN Return(w, l2, "DONE", c.ch, "none")
              ELSE /\ loc' = [loc EXCEPT ![w] = l2]
                   /\ last' = NoRes
                   /\ UNCHANGED <<pc, req>>
    /\ execs' = Called(req[w].tid, loc[w].next)
    /\ UNCHANGED <<writes, calls, invs, par>>

\* A step that stores the interrupt under the checkpoint's number alone, for
\* every thread.
TickInterruptUnkeyed(w) ==
    /\ pc[w] = "tick"
    /\ loc[w].next \in Nodes
    /\ RunNode(loc[w].next, loc[w].ch, loc[w].resume).kind = "interrupt"
    /\ writes' = [t \in Threads |->
                    writes[t] \cup {Write(loc[w].cur, "interrupt", loc[w].next)}]
    /\ Return(w, [loc[w] EXCEPT !.ran = Append(@, loc[w].next)],
              "PAUSED", loc[w].ch, loc[w].next)
    /\ execs' = Called(req[w].tid, loc[w].next)
    /\ UNCHANGED <<hist, calls, invs, par>>

\* A node's superstep whose handler calls interrupt() with no resume value:
\* the interrupt is a pending write of the current checkpoint and the call
\* returns the state with "__interrupt__" in it.
TickInterrupt(w) ==
    /\ pc[w] = "tick"
    /\ loc[w].next \in Nodes
    /\ RunNode(loc[w].next, loc[w].ch, loc[w].resume).kind = "interrupt"
    /\ writes' = [writes EXCEPT ![req[w].tid] =
                    @ \cup {Write(loc[w].cur, "interrupt", loc[w].next)}]
    /\ Return(w, [loc[w] EXCEPT !.ran = Append(@, loc[w].next)],
              "PAUSED", loc[w].ch, loc[w].next)
    /\ execs' = Called(req[w].tid, loc[w].next)
    /\ UNCHANGED <<hist, calls, invs, par>>

\* A step that checkpoints the state a raising handler was given.
TickRaiseCheckpointed(w) ==
    /\ pc[w] = "tick"
    /\ loc[w].next \in Nodes
    /\ RunNode(loc[w].next, loc[w].ch, loc[w].resume).kind = "raise"
    /\ hist' = [hist EXCEPT ![req[w].tid] =
                  Put(@, Checkpoint("loop", loc[w].step + 1, loc[w].ch,
                                    loc[w].next, NoKeys, loc[w].cur))]
    /\ writes' = [writes EXCEPT ![req[w].tid] =
                    @ \cup {Write(loc[w].cur, "error", loc[w].next)}]
    /\ Return(w, [loc[w] EXCEPT !.ran = Append(@, loc[w].next)],
              "ERROR", loc[w].ch, "none")
    /\ execs' = Called(req[w].tid, loc[w].next)
    /\ UNCHANGED <<calls, invs, par>>

\* A node's superstep whose handler raises: no checkpoint; the error is a
\* pending write of the current checkpoint and the exception leaves
\* graph.invoke and the entry point.
TickRaise(w) ==
    /\ pc[w] = "tick"
    /\ loc[w].next \in Nodes
    /\ RunNode(loc[w].next, loc[w].ch, loc[w].resume).kind = "raise"
    /\ writes' = [writes EXCEPT ![req[w].tid] =
                    @ \cup {Write(loc[w].cur, "error", loc[w].next)}]
    /\ Return(w, [loc[w] EXCEPT !.ran = Append(@, loc[w].next)],
              "ERROR", loc[w].ch, "none")
    /\ execs' = Called(req[w].tid, loc[w].next)
    /\ UNCHANGED <<hist, calls, invs, par>>

Next ==
    \/ \E w \in Workers, t \in Threads \cup {NoThread}, a \in Approvals :
          ChatInvalid(w, t, a)
    \/ \E w \in Workers, t \in Threads \cup {NoThread}, m \in Texts,
          a \in Approvals : Chat(w, t, m, a)
    \/ \E w \in Workers, t \in Threads \cup {NoThread}, m \in Texts,
          a \in Approvals : RunOnce(w, t, m, a)
    \/ \E w \in Workers : FirstInput(w)
    \/ \E w \in Workers : FirstResume(w)
    \/ \E w \in Workers : FirstResumeNew(w)
    \/ \E w \in Workers : TickStart(w)
    \/ \E w \in Workers : TickNode(w)
    \/ \E w \in Workers : TickInterrupt(w)
    \/ \E w \in Workers : TickRaise(w)

Spec == Init /\ [][Next]_vars

\* A step of the call worker w serves.
Step(w) ==
    \/ FirstInput(w)
    \/ FirstResume(w)
    \/ FirstResumeNew(w)
    \/ TickStart(w)
    \/ TickNode(w)
    \/ TickInterrupt(w)
    \/ TickRaise(w)

\* graph.invoke runs synchronously on the worker that serves the call, and
\* every handler returns, interrupts or raises: a call that has a step to take
\* takes it.
LiveSpec == Spec /\ \A w \in Workers : WF_vars(Step(w))

\* ------------------------------------------------------------ properties
\* The call that has just returned was served by graph.invoke.
Returned == last.status \in {"PAUSED", "DONE", "ERROR"}

FreshCall == Returned /\ last.req.resume = "none"

ResumeCall == Returned /\ last.req.resume # "none"

\* The checkpoints of thread t that carry a pause marker, and the terminal ones.
PauseRecords(t) == {n \in 1..Len(hist[t]) : Interrupted(t, n)}

TerminalRecords(t) == {n \in 1..Len(hist[t]) : hist[t][n].next = END}

ScenarioB_RefundIssued ==
    (ResumeCall /\ last.paused /\ last.req.resume = "True")
    => /\ last.status = "DONE"
       /\ last.ch.st.approval = "True"
       /\ last.ch.st.action_result.kind = "refund_issued"

ScenarioB_Reached ==
    /\ ResumeCall
    /\ last.paused
    /\ last.req.resume = "True"
    /\ last.status = "DONE"
    /\ last.ran = <<"human_gate", "refund">>
    /\ last.ch.st.action_result = Result("refund_issued", DefaultAmount)

\* C3: a resume call carrying false, on a thread whose latest checkpoint has a
\* pending interrupt, returns Completed with the refund denied; when the pause
\* and this resume are the only calls the thread has had, its history holds
\* exactly one checkpoint with a pause marker and exactly one terminal one.
ScenarioC_RefundDenied ==
    (ResumeCall /\ last.paused /\ last.req.resume = "False")
    => /\ last.status = "DONE"
       /\ last.ch.st.action_result.kind = "refund_denied"
       /\ invs[last.req.tid] = 2
          => /\ Cardinality(PauseRecords(last.req.tid)) = 1
             /\ Cardinality(TerminalRecords(last.req.tid)) = 1

ScenarioC_Reached ==
    /\ ResumeCall
    /\ last.paused
    /\ last.req.resume = "False"
    /\ last.status = "DONE"
    /\ invs[last.req.tid] = 2
    /\ Len(hist[last.req.tid]) = 5
    /\ last.ch.st.action_result.kind = "refund_denied"

\* C4: a resume call on a thread without checkpoints fails, runs no node and
\* leaves the thread's history empty.
ScenarioD_NothingToResume ==
    (ResumeCall /\ last.new)
    => /\ last.status = "ERROR"
       /\ last.ran = <<>>
       /\ last.nput = 0
       /\ hist[last.req.tid] = <<>>

\* C5: a resume call on a thread whose latest checkpoint has no pause marker
\* (the thread has completed its turn) is rejected: it fails, no handler runs
\* and no checkpoint is appended.
ResumeWithoutPause_Rejected ==
    (ResumeCall /\ ~last.paused /\ last.ended)
    => /\ last.status = "ERROR"
       /\ last.ran = <<>>
       /\ last.nput = 0

\* C6: a call with a fresh state on a thread whose latest checkpoint has a
\* pending interrupt fails, runs no node and appends no checkpoint.
FreshOnPaused_ThreadBusy ==
    (FreshCall /\ last.paused)
    => /\ last.status = "ERROR"
       /\ last.ran = <<>>
       /\ last.nput = 0

\* C7: a request with both a message and an approval value, or with neither,
\* is rejected and changes nothing.  Every chat call that resumes carries a
\* message, Inbound requires one; the case is taken on a thread that awaits
\* approval, where the approval alone is a valid resume.
ExactlyOneInput_Enforced ==
    /\ (last.status # "NONE" /\ last.req.message = MissingMessage)
       => last.status = "INVALID"
    /\ (ResumeCall /\ last.paused)
       => /\ last.status = "ERROR"
          /\ last.ran = <<>>
          /\ last.nput = 0

\* C8: of two calls on one thread whose executions overlap, only one appends
\* checkpoints, and every checkpoint follows its parent directly.
SameThreadCalls_Serialized ==
    /\ \A w \in Workers :
          (Returned /\ pc[w] # "idle" /\ req[w].tid = last.req.tid)
          => (last.nput = 0 \/ loc[w].nput = 0)
    /\ \A t \in Threads : \A n \in 1..Len(hist[t]) :
          hist[t][n].parent = n - 1

StepsIncreasing(t) ==
    \A n \in 1..(Len(hist[t]) - 1) : hist[t][n].step < hist[t][n + 1].step

RowsKept(t) ==
    /\ Len(hist'[t]) >= Len(hist[t])
    /\ \A n \in 1..Len(hist[t]) : hist'[t][n] = hist[t][n]

\* C9, as claimed: a thread's checkpoints are only appended to, a written
\* checkpoint's state, next node and pause marker never change, and over calls
\* made one after another the step numbers increase strictly.
History_Immutable ==
    /\ [][\A t \in Threads :
            /\ RowsKept(t)
            /\ \A n \in 1..Len(hist[t]) :
                  Interrupted(t, n)' = Interrupted(t, n)]_vars
    /\ [](~par => \A t \in Threads : StepsIncreasing(t))

\* C9, amended: as above, except that the pause marker of a checkpoint is
\* added after the checkpoint is written (when the node it names as next
\* suspends) and never changes once set.
History_AppendOnly ==
    /\ [][\A t \in Threads :
            /\ RowsKept(t)
            /\ \A n \in 1..Len(hist[t]) :
                  /\ Interrupted(t, n) => Interrupted(t, n)'
                  /\ (~Interrupted(t, n) /\ Interrupted(t, n)')
                     => hist[t][n].next \in Nodes]_vars
    /\ [](~par => \A t \in Threads : StepsIncreasing(t))

\* A new turn on a completed thread has been appended after the terminal
\* checkpoint, and a pause marker has been set.
History_Rerun_Reached ==
    \E t \in Threads : \E n \in 1..(Len(hist[t]) - 1) :
       /\ hist[t][n].next = END
       /\ hist[t][n + 1].source = "input"
       /\ hist[t][n + 1].step = hist[t][n].step + 1
       /\ PauseRecords(t) # {}

NotGated == FreshCall /\ last.new /\ classify_intent(last.req.message)[1] # "refund"

\* C10, as claimed: a fresh call on a new thread whose intent is not refund
\* returns Completed, and the thread then has as many checkpoints as nodes ran.
Ungated_Completes_OnePerNode ==
    NotGated
    => /\ last.status = "DONE"
       /\ invs[last.req.tid] = 1
          => Len(hist[last.req.tid]) = Len(last.ran)

\* C10, amended: ... as many checkpoints as nodes ran, and two more (the
\* input checkpoint and the checkpoint of the START step).
Ungated_Completes ==
    NotGated
    => /\ last.status = "DONE"
       /\ last.interrupt = "none"
       /\ invs[last.req.tid] = 1
          => Len(hist[last.req.tid]) = Len(last.ran) + 2

Ungated_Reached ==
    /\ NotGated
    /\ last.status = "DONE"
    /\ invs[last.req.tid] = 1
    /\ last.ran = <<"classify", "faq">>
    /\ Len(hist[last.req.tid]) = 4

\* The nodes other than those of ns have not been called on thread t.
OnlyCalled(t, ns) == \A n \in Nodes \ ns : execs[t][n] = 0

\* C11: a resume call carrying v, on a thread whose latest checkpoint has a
\* pending interrupt, runs human_gate again with interrupt() returning v (the
\* state's approval is v) and then refund; when the pause turn and this resume
\* are the only calls the thread has had, classify and refund have each been
\* called once on it, human_gate twice and no other node.
Resume_ObservesValue_OncePerNode ==
    (ResumeCall /\ last.paused)
    => /\ last.status = "DONE"
       /\ last.ch.st.approval = last.req.resume
       /\ last.ran = <<"human_gate", "refund">>
       /\ invs[last.req.tid] = 2
          => /\ execs[last.req.tid]["classify"] = 1
             /\ execs[last.req.tid]["refund"] = 1
             /\ execs[last.req.tid]["human_gate"] = 2
             /\ OnlyCalled(last.req.tid, {"classify", "human_gate", "refund"})

Resume_ObservesValue_Reached ==
    /\ ResumeCall
    /\ last.paused
    /\ last.req.resume = "False"
    /\ last.ch.st.approval = "False"
    /\ invs[last.req.tid] = 2
    /\ execs[last.req.tid]["human_gate"] = 2
    /\ execs[last.req.tid]["classify"] = 1

\* A call on thread t failed in a handler and nothing has been run on t since.
FailedAt(t, n) ==
    /\ hist[t] # <<>>
    /\ hist[t][Len(hist[t])].next = n
    /\ \E wr \in writes[t] :
          wr.ck = Len(hist[t]) /\ wr.kind = "error" /\ wr.val = n

\* C12: the step in which a handler raises writes no checkpoint and the call
\* fails at that node; with no other call in flight the thread's latest
\* checkpoint is then the one the step started from, and a retry of the call
\* is given that checkpoint's state and position again.
Raise_WritesNoCheckpoint ==
    /\ [][\A w \in Workers :
            (pc[w] = "tick" /\ pc'[w] = "idle" /\ last'.status = "ERROR")
            => /\ hist' = hist
               /\ last'.ran # <<>>
               /\ last'.ran[Len(last'.ran)] = loc[w].next
               /\ ~par =>
                    /\ Len(hist'[req[w].tid]) = loc[w].cur
                    /\ hist'[req[w].tid][loc[w].cur].ch = loc[w].ch
                    /\ hist'[req[w].tid][loc[w].cur].next = loc[w].next]_vars
    /\ [](\A t \in Threads :
            (~par /\ last.status = "ERROR" /\ last.req.tid = t
               /\ ~last.new /\ last.nput = 0)
            => /\ FailedAt(t, last.ran[1])
               /\ hist[t][Len(hist[t])].ch = last.ch)

Raise_Retried_Reached ==
    /\ ~par
    /\ ResumeCall
    /\ ~last.new
    /\ last.status = "ERROR"
    /\ last.nput = 0
    /\ last.ran = <<"classify">>
    /\ invs[last.req.tid] = 2
    /\ execs[last.req.tid]["classify"] = 2
    /\ Len(hist[last.req.tid]) = 2

\* What is stored for thread t and what has run on it.
ThreadData(t) == <<hist[t], writes[t], execs[t]>>

\* Worker w takes the step.
Steps(w) == pc'[w] # pc[w] \/ loc'[w] # loc[w] \/ req'[w] # req[w]

\* C13: a step of a call on thread A leaves every other thread's checkpoints
\* (states and messages in them), pending writes (pause markers) and handler
\* calls as they were, whatever calls are in flight; and what a call with a
\* fresh state returns is the user message it was given, classified, whatever
\* the other threads hold.
Threads_Isolated ==
    /\ [][\A w \in Workers : \A t \in Threads :
            (Steps(w) /\ t # req[w].tid /\ t # req'[w].tid)
            => ThreadData(t)' = ThreadData(t)]_vars
    /\ [](FreshCall =>
            /\ last.ch.st.messages[1] = Msg("user", last.req.message)
            /\ last.ch.st.intent = classify_intent(last.req.message)[1]
            /\ last.ch.st.risk = classify_intent(last.req.message)[2])

\* Calls on two threads are in flight at once, one of them past its first
\* node.
Threads_Interleaved_Reached ==
    \E v, w \in Workers :
       /\ pc[v] = "tick"
       /\ pc[w] = "tick"
       /\ req[v].tid # req[w].tid
       /\ loc[v].ran # <<>>
       /\ hist[req[w].tid] # <<>>

\* The values the state's intent and risk can hold.
Intents == {"faq", "issue", "refund", "unknown", None}

Risks == {"low", "high", None}

RoutedState(i, r) == GraphState(<<>>, i, r, NoResult, None)

\* The checkpoints of thread t written by a step of node n.
WrittenBy(t, n) ==
    {k \in 2..Len(hist[t]) :
        /\ hist[t][k].source = "loop"
        /\ hist[t][k].parent \in 1..Len(hist[t])
        /\ hist[t][hist[t][k].parent].next = n}

\* C14: for every intent and risk the router's label is a key of the mapping
\* and maps to a declared node; every node has exactly one way out (one static
\* edge, or the conditional edges), which is the one the engine follows; no
\* edge and no label leads to classify except the edge from START; and every
\* checkpoint written after classify names the node of the router's label.
Router_Resolvable ==
    /\ \A i \in Intents : \A r \in Risks :
          /\ router(RoutedState(i, r)) \in DOMAIN PathMap
          /\ PathMap[router(RoutedState(i, r))] \in Nodes \ {"classify"}
    /\ \A n \in Nodes :
          Cardinality({e \in Edges : e[1] = n})
             + (IF n = ConditionalSource THEN 1 ELSE 0) = 1
    /\ \A e \in Edges :
          /\ e[1] \in Nodes \cup {START}
          /\ e[2] \in Nodes \cup {END}
          /\ e[2] = "classify" => e[1] = START
          /\ \A i \in Intents : \A r \in Risks :
                NextNode(e[1], RoutedState(i, r)) = e[2]
    /\ \A t \in Threads : \A k \in WrittenBy(t, "classify") :
          /\ router(hist[t][k].ch.st) \in DOMAIN PathMap
          /\ hist[t][k].next = PathMap[router(hist[t][k].ch.st)]

\* Classify has run on a message of no known intent and on a refund request,
\* and the router has sent them to fallback and to human_gate.
Router_Routed_Reached ==
    \E t, u \in Threads :
       /\ \E k \in WrittenBy(t, "classify") :
             /\ hist[t][k].ch.st.intent = "unknown"
             /\ hist[t][k].next = "fallback"
       /\ \E k \in WrittenBy(u, "classify") :
             /\ hist[u][k].ch.st.intent = "refund"
             /\ hist[u][k].next = "human_gate"

\* The longest path of the graph.
LongestPath == <<"classify", "human_gate", "refund">>

\* C15: every call graph.invoke serves returns; it returns Completed (the
\* thread's next node is END) or Paused (human_gate called interrupt()) unless
\* a handler raised; and a call runs at most as many handlers as the graph's
\* longest path has nodes, no node twice.
Invoke_Terminates ==
    /\ \A w \in Workers : (pc[w] # "idle") ~> (pc[w] = "idle")
    /\ [](\A w \in Workers :
            /\ Len(loc[w].ran) <= Len(LongestPath)
            /\ \A i, j \in 1..Len(loc[w].ran) :
                  loc[w].ran[i] = loc[w].ran[j] => i = j)
    /\ [](Returned =>
            /\ Len(last.ran) <= Len(LongestPath)
            /\ last.status = "DONE" => last.interrupt = "none"
            /\ last.status = "PAUSED" => last.interrupt = "human_gate"
            /\ last.status = "ERROR" =>
                  RunNode(last.ran[Len(last.ran)], last.ch, "none").kind
                     = "raise")

\* A call has gone through the longest path and returned Completed.
Invoke_LongestPath_Reached ==
    /\ Returned
    /\ last.status = "DONE"
    /\ last.ran = LongestPath

\* Thread t's latest checkpoint carries a pause marker.
PausedNow(t) == hist[t] # <<>> /\ Interrupted(t, Len(hist[t]))

\* C16: while a thread's latest checkpoint carries a pause marker, only the
\* steps of a resume call on that thread run its nodes, append checkpoints to
\* it or change what is stored for it (calls made one after another).
Paused_NoWork_UntilResume ==
    [][\A t \in Threads :
         (~par /\ PausedNow(t) /\ ThreadData(t)' # ThreadData(t))
         => \E w \in Workers :
               /\ Steps(w)
               /\ req[w].tid = t
               /\ req[w].resume # "none"]_vars

\* The nodes awaiting resumption on thread t: the pending interrupts of its
\* latest checkpoint.
Awaiting(t) ==
    {wr.val : wr \in {x \in writes[t] :
                         x.ck = Len(hist[t]) /\ x.kind = "interrupt"}}

\* C17: when a thread's latest checkpoint carries a pause marker, the node
\* the checkpoint names as next and the marker's node are human_gate, the
\* checkpoint's state has approval None, intent refund and risk high, and no
\* other node of the thread awaits resumption.
PauseMarker_OnlyAtGate ==
    \A t \in Threads :
       PausedNow(t)
       => /\ Awaiting(t) = {"human_gate"}
          /\ hist[t][Len(hist[t])].next = "human_gate"
          /\ hist[t][Len(hist[t])].ch.present
          /\ hist[t][Len(hist[t])].ch.st.approval = None
          /\ hist[t][Len(hist[t])].ch.st.intent = "refund"
          /\ hist[t][Len(hist[t])].ch.st.risk = "high"

\* A thread is paused for the second time: an older checkpoint of it carries
\* the marker of the first pause.
PauseMarker_SecondPause_Reached ==
    \E t \in Threads :
       /\ PausedNow(t)
       /\ Cardinality(PauseRecords(t)) = 2
       /\ \A w \in Workers : pc[w] = "idle"

\* Checkpoint k of thread t was written after a pause of t that was resumed
\* with true.
ApprovedBefore(t, k) ==
    \E n \in PauseRecords(t) :
       /\ n < k
       /\ \E wr \in writes[t] :
             wr.ck = n /\ wr.kind = "resume" /\ wr.val = "True"

\* C18: whatever the entry point, a checkpoint whose action_result is a refund
\* issued follows a pause of its thread at human_gate that was resumed with
\* true (calls made one after another).
Refund_OnlyAfterApprovedPause ==
    ~par =>
       \A t \in Threads : \A k \in 1..Len(hist[t]) :
          hist[t][k].ch.st.action_result.kind = "refund_issued"
          => ApprovedBefore(t, k)

\* The checkpoint the call that has just returned started from, when no call
\* overlapped it: the one before the checkpoints it appended.
StartedFrom == hist[last.req.tid][Len(hist[last.req.tid]) - last.nput]

\* C19: a resume call on a paused thread does not run classify; the state it
\* returns has the intent, the risk and the messages of the paused checkpoint,
\* with one assistant message appended whose content is the action_result;
\* approval and action_result are the other fields it has written.
Resume_KeepsPrePauseFields ==
    (~par /\ ResumeCall /\ last.paused /\ last.status = "DONE")
    => /\ Interrupted(last.req.tid, Len(hist[last.req.tid]) - last.nput)
       /\ \A i \in 1..Len(last.ran) : last.ran[i] # "classify"
       /\ last.ch.st.intent = StartedFrom.ch.st.intent
       /\ last.ch.st.risk = StartedFrom.ch.st.risk
       /\ last_user(last.ch.st) = last_user(StartedFrom.ch.st)
       /\ last.ch.st.messages =
             Append(StartedFrom.ch.st.messages,
                    Msg("assistant", last.ch.st.action_result))
       /\ StartedFrom.ch.st.approval = None
       /\ StartedFrom.ch.st.action_result = NoResult
       /\ last.ch.st.approval # None
       /\ last.ch.st.action_result # NoResult
       /\ hist[last.req.tid][Len(hist[last.req.tid])].ch = last.ch

Resume_KeepsPrePauseFields_Reached ==
    /\ ~par
    /\ ResumeCall
    /\ last.paused
    /\ last.status = "DONE"
    /\ last.nput = 2
    /\ last.ch.st.intent = "refund"
    /\ last.ch.st.risk = "high"
    /\ Len(last.ch.st.messages) = 2
    /\ last.ch.st.messages[1].role = "user"
    /\ "refund" \in last.ch.st.messages[1].content.kws

Handlers == {"faq", "issue", "refund", "fallback"}

\* The call that has just returned Completed ended a thread that was started
\* by a fresh call: it is that call, or the resume of the pause that call
\* ended in, and the thread has had no other call.
ThreadCompleted ==
    /\ Returned
    /\ last.status = "DONE"
    /\ \/ FreshCall /\ last.new /\ invs[last.req.tid] = 1
       \/ ResumeCall /\ last.paused /\ invs[last.req.tid] = 2

\* C20: on a thread started by a fresh call and run to Completed, directly or
\* across a pause and its resume, exactly one of faq, issue, refund and
\* fallback has been called, once; the messages are the user message and one
\* assistant message, whose content is the action_result.  A call that returns
\* Paused returns a state with no action_result and no assistant message.
OneHandler_OneAnswer ==
    /\ ThreadCompleted
       => /\ Cardinality({h \in Handlers : execs[last.req.tid][h] > 0}) = 1
          /\ \A h \in Handlers : execs[last.req.tid][h] <= 1
          /\ Len(last.ch.st.messages) = 2
          /\ last.ch.st.messages[1].role = "user"
          /\ last.ch.st.messages[1] = hist[last.req.tid][1].start.st.messages[1]
          /\ last.ch.st.messages[2] =
                Msg("assistant", last.ch.st.action_result)
          /\ last.ch.st.action_result # NoResult
    /\ (Returned /\ last.status = "PAUSED")
       => /\ last.ch.st.action_result = NoResult
          /\ \A i \in 1..Len(last.ch.st.messages) :
                last.ch.st.messages[i].role # "assistant"
          /\ \A h \in Handlers : invs[last.req.tid] = 1
                                    => execs[last.req.tid][h] = 0

OneHandler_AcrossPause_Reached ==
    /\ ThreadCompleted
    /\ ResumeCall
    /\ execs[last.req.tid]["refund"] = 1
    /\ execs[last.req.tid]["fallback"] = 0
    /\ Len(last.ch.st.messages) = 2
    /\ last.ch.st.messages[2].content = last.ch.st.action_result

=============================================================================
